---- MODULE Spec2Model ----
(***************************************************************************)
(* Model of biometrics.py: the SHA-256 tamper-detection evaluation harness *)
(* (file reader, hasher, tamperer, evaluator, batch runner).               *)
(*                                                                         *)
(* The file system is the environment.  Init chooses what the path given   *)
(* to process_images_in_directory names: nothing, a regular file, or a     *)
(* directory with a listing of entry names.  What open()/read() answers    *)
(* for an entry (its outcome and its bytes) is an input of the step that   *)
(* first opens it, and stays the same for the second trial of that entry.  *)
(* The random source of tamper_image is a nondeterministic choice of index *)
(* and value.                                                              *)
(***************************************************************************)
EXTENDS Integers, Sequences, FiniteSets, TLC

\* ---- bounds of the model ----
MaxFiles == 2      \* entries returned by os.listdir
MaxLen   == 2      \* bytes in a file
MaxByte  == 0      \* file bytes are drawn from 0..MaxByte

\* ---- program constants ----
ByteTop == 255     \* random.randint(0, 255)

NoSample == -1     \* ghost value: the random source was not consulted

\* Extensions of the modelled entries: one that matches the filter only after
\* lower(), one that never matches.
Exts == {".JPG", ".txt"}
ReadOutcomes == {"ok", "notfound", "ioerror"}
Contents == UNION {[1..n -> 0..MaxByte] : n \in 0..MaxLen}

\* What the file system holds at the path of an entry.
Files ==
    [read : ReadOutcomes \ {"ok"}, content : {<<>>}]
    \cup [read : {"ok"}, content : Contents]

NoFile == [read |-> "none", content |-> <<>>]

\* What os.listdir can return: the names, reduced to their extensions.
Listings == UNION {[1..n -> Exts] : n \in 0..MaxFiles}

Zero == <<0, 1>>   \* the float 0.0, as a fraction <<numerator, denominator>>
ZeroMetrics == <<Zero, Zero, Zero>>

VARIABLES
    directory,             \* [kind, entries]: what the path argument names
    pc,                    \* position in process_images_in_directory
    i,                     \* index of the listing entry the loop is at
    all_true_labels,
    all_predicted_labels,
    out,                   \* messages printed so far
    result,                \* returned (precision, recall, f1), or <<>>
    file,                  \* what the path of entry i holds, once opened
    listed,                \* ghost: os.listdir has been called
    trial,                 \* ghost: the last evaluator call of this iteration
    trials                 \* ghost: log of the calls, in execution order

vars == <<directory, pc, i, all_true_labels, all_predicted_labels, out,
          result, file, listed, trial, trials>>

\* ---- str.lower() on the modelled extensions ----
lower(s) == IF s = ".JPG" THEN ".jpg" ELSE s

\* ---- filename.lower().endswith(('.png', '.jpg', '.jpeg', '.bmp')) ----
endswith_image_ext(filename) ==
    lower(filename) \in {".png", ".jpg", ".jpeg", ".bmp"}

\* ---- image_to_binary ----
image_to_binary(entry, k) ==
    CASE entry.read = "ok" ->
           [data |-> entry.content, msgs |-> <<>>]
      [] entry.read = "notfound" ->
           [data |-> <<>>, msgs |-> <<[msg |-> "file was not found", arg |-> k]>>]
      [] entry.read = "ioerror" ->
           [data |-> <<>>, msgs |-> <<[msg |-> "I/O error occurred", arg |-> k]>>]

\* ---- generate_sha256_hash ----
\* hashlib.sha256 is modelled as a collision-free digest on the bounded
\* domain: a positional encoding of the bytes with a leading 1, so that
\* sequences of different lengths get different digests too.
RECURSIVE digest_fold(_, _)
digest_fold(data, h) ==
    IF data = <<>> THEN h
    ELSE digest_fold(Tail(data), h * (ByteTop + 1) + Head(data))

generate_sha256_hash(data) == digest_fold(data, 1)

\* ---- random.randint(a, b): any integer of a..b ----
randint(a, b) == a .. b

\* ---- tamper_image, with the two random draws as parameters ----
\* (variant: the byte after the chosen one is overwritten as well)
tamper_image_two(binary_data, index_to_modify, new_value) ==
    IF binary_data = <<>> THEN <<>>
    ELSE [j \in 1..Len(binary_data) |->
            IF j = index_to_modify + 1 \/ j = ((index_to_modify + 1) % Len(binary_data)) + 1
            THEN new_value ELSE binary_data[j]]

\* (variant: the new value is forced to differ from the old one)
tamper_image_flip(binary_data, index_to_modify, new_value) ==
    IF binary_data = <<>> THEN <<>>
    ELSE [binary_data EXCEPT ![index_to_modify + 1] =
            IF new_value = @ THEN (new_value + 1) % (ByteTop + 1) ELSE new_value]

tamper_image(binary_data, index_to_modify, new_value) ==
    IF binary_data = <<>> THEN <<>>
    ELSE [binary_data EXCEPT ![index_to_modify + 1] = new_value]

\* The draws tamper_image makes on the bytes it is given: none on empty input.
tamper_samples(binary_data) ==
    IF binary_data = <<>> THEN {<<NoSample, NoSample>>}
    ELSE randint(0, Len(binary_data) - 1) \X randint(0, ByteTop)

\* ---- evaluate_binary_vs_sha256 ----
\* Returns the label pair plus what the call did (messages printed, bytes
\* read, bytes hashed the second time).

\* (variant: line 49 inverted)
evaluate_inverted_truth(entry, k, tampered, index_to_modify, new_value) ==
    LET rd == image_to_binary(entry, k)
    IN IF rd.data = <<>>
       THEN [true_label |-> 0, predicted_label |-> 0, msgs |-> rd.msgs,
             data |-> <<>>, final |-> <<>>]
       ELSE LET final == IF tampered
                         THEN tamper_image(rd.data, index_to_modify, new_value)
                         ELSE rd.data
            IN [true_label |-> IF tampered THEN 1 ELSE 0,
                predicted_label |->
                    IF generate_sha256_hash(final) = generate_sha256_hash(rd.data)
                    THEN 1 ELSE 0,
                msgs |-> rd.msgs, data |-> rd.data, final |-> final]

\* (variant: the tamper flag is ignored, every trial tampers)
evaluate_always_tampers(entry, k, tampered, index_to_modify, new_value) ==
    LET rd == image_to_binary(entry, k)
        idx == IF index_to_modify = NoSample THEN 0 ELSE index_to_modify
        val == IF new_value = NoSample THEN ByteTop ELSE new_value
    IN IF rd.data = <<>>
       THEN [true_label |-> 0, predicted_label |-> 0, msgs |-> rd.msgs,
             data |-> <<>>, final |-> <<>>]
       ELSE LET final == tamper_image(rd.data, idx, val)
            IN [true_label |-> IF ~tampered THEN 1 ELSE 0,
                predicted_label |->
                    IF generate_sha256_hash(final) = generate_sha256_hash(rd.data)
                    THEN 1 ELSE 0,
                msgs |-> rd.msgs, data |-> rd.data, final |-> final]

evaluate_binary_vs_sha256(entry, k, tampered, index_to_modify, new_value) ==
    LET rd == image_to_binary(entry, k)
        binary_image == rd.data
    IN IF binary_image = <<>>
       THEN [true_label |-> 0, predicted_label |-> 0, msgs |-> rd.msgs,
             data |-> <<>>, final |-> <<>>]
       ELSE LET original_sha256_hash == generate_sha256_hash(binary_image)
                final == IF tampered
                         THEN tamper_image(binary_image, index_to_modify, new_value)
                         ELSE binary_image
            IN IF tampered /\ final = <<>>
               THEN [true_label |-> 0, predicted_label |-> 0, msgs |-> rd.msgs,
                     data |-> binary_image, final |-> final]
               ELSE [true_label |-> IF ~tampered THEN 1 ELSE 0,
                     predicted_label |->
                         IF generate_sha256_hash(final) = original_sha256_hash
                         THEN 1 ELSE 0,
                     msgs |-> rd.msgs, data |-> binary_image, final |-> final]

\* ---- sklearn.metrics, binary average, pos_label = 1, zero_division -> 0 ----
Count(y_true, y_pred, t, p) ==
    Cardinality({k \in 1..Len(y_true) : y_true[k] = t /\ y_pred[k] = p})

Ratio(n, d) == IF d = 0 THEN Zero ELSE <<n, d>>

\* (variant: the arguments are passed in the wrong order)
precision_score_swapped(y_true, y_pred) ==
    LET tp == Count(y_true, y_pred, 1, 1)
        fn == Count(y_true, y_pred, 1, 0)
    IN Ratio(tp, tp + fn)

precision_score(y_true, y_pred) ==
    LET tp == Count(y_true, y_pred, 1, 1)
        fp == Count(y_true, y_pred, 0, 1)
    IN Ratio(tp, tp + fp)

recall_score(y_true, y_pred) ==
    LET tp == Count(y_true, y_pred, 1, 1)
        fn == Count(y_true, y_pred, 1, 0)
    IN Ratio(tp, tp + fn)

f1_score(y_true, y_pred) ==
    LET tp == Count(y_true, y_pred, 1, 1)
        fp == Count(y_true, y_pred, 0, 1)
        fn == Count(y_true, y_pred, 1, 0)
    IN Ratio(2 * tp, 2 * tp + fp + fn)

\* ---- the state after construction ----
NoTrial == [file |-> 0, tampered |-> FALSE, read |-> "none", data |-> <<>>,
            final |-> <<>>, index_to_modify |-> NoSample,
            new_value |-> NoSample, true_label |-> 0, predicted_label |-> 0]

Init ==
    /\ directory \in
          [kind : {"missing", "file"}, entries : {<<>>}]
          \cup [kind : {"dir"}, entries : Listings]
    /\ pc = "start"
    /\ i = 0
    /\ all_true_labels = <<>>
    /\ all_predicted_labels = <<>>
    /\ out = <<>>
    /\ result = <<>>
    /\ file = NoFile
    /\ listed = FALSE
    /\ trial = NoTrial
    /\ trials = <<>>

\* ---- process_images_in_directory, lines 55-60: the path is no directory ----
DirectoryMissing ==
    /\ pc = "start"
    /\ directory.kind # "dir"
    /\ out' = Append(out, [msg |-> "directory does not exist", arg |-> 0])
    /\ result' = ZeroMetrics
    /\ pc' = "done"
    /\ UNCHANGED <<directory, i, all_true_labels, all_predicted_labels,
                   file, listed, trial, trials>>

\* (variant: the isdir check is missing)
ListDirectory_unchecked ==
    /\ pc = "start"
    /\ listed' = TRUE
    /\ pc' = "loop"
    /\ UNCHANGED <<directory, i, all_true_labels, all_predicted_labels, out,
                   result, file, trial, trials>>

\* ---- lines 58, 62: the path is a directory, os.listdir is called ----
ListDirectory ==
    /\ pc = "start"
    /\ directory.kind = "dir"
    /\ listed' = TRUE
    /\ pc' = "loop"
    /\ UNCHANGED <<directory, i, all_true_labels, all_predicted_labels, out,
                   result, file, trial, trials>>

\* ---- line 62: the for statement takes the next entry of the listing, or
\* leaves the loop when there is none ----
NextEntry ==
    /\ pc = "loop"
    /\ IF i < Len(directory.entries)
       THEN i' = i + 1 /\ pc' = "filter"
       ELSE i' = i /\ pc' = "end"
    /\ trial' = NoTrial
    /\ UNCHANGED <<directory, all_true_labels, all_predicted_labels, out,
                   result, file, listed, trials>>

\* ---- line 63: an entry the extension filter rejects ----
SkipEntry ==
    /\ pc = "filter"
    /\ ~endswith_image_ext(directory.entries[i])
    /\ pc' = "loop"
    /\ UNCHANGED <<directory, i, all_true_labels, all_predicted_labels, out,
                   result, file, listed, trial, trials>>

\* (variant: the predicted label is inserted at the front of its list)
RunTrial_prepend(f, tampered, index_to_modify, new_value, label) ==
    LET r == evaluate_binary_vs_sha256(f, i, tampered, index_to_modify, new_value)
    IN /\ out' = Append(out, [msg |-> label, arg |-> i]) \o r.msgs
       /\ all_true_labels' = Append(all_true_labels, r.true_label)
       /\ all_predicted_labels' = <<r.predicted_label>> \o all_predicted_labels
       /\ trial' = [file |-> i, tampered |-> tampered, read |-> f.read,
                    data |-> r.data, final |-> r.final,
                    index_to_modify |-> index_to_modify,
                    new_value |-> new_value,
                    true_label |-> r.true_label,
                    predicted_label |-> r.predicted_label]
       /\ trials' = Append(trials, [file |-> i, tampered |-> tampered,
                                    read |-> f.read,
                                    true_label |-> r.true_label,
                                    predicted_label |-> r.predicted_label])

\* One call of the evaluator from the loop body, on the entry whose path
\* holds f, and the two appends after it.
RunTrial(f, tampered, index_to_modify, new_value, label) ==
    LET r == evaluate_binary_vs_sha256(f, i, tampered, index_to_modify, new_value)
    IN /\ out' = Append(out, [msg |-> label, arg |-> i]) \o r.msgs
       /\ all_true_labels' = Append(all_true_labels, r.true_label)
       /\ all_predicted_labels' = Append(all_predicted_labels, r.predicted_label)
       /\ trial' = [file |-> i, tampered |-> tampered, read |-> f.read,
                    data |-> r.data, final |-> r.final,
                    index_to_modify |-> index_to_modify,
                    new_value |-> new_value,
                    true_label |-> r.true_label,
                    predicted_label |-> r.predicted_label]
       /\ trials' = Append(trials, [file |-> i, tampered |-> tampered,
                                    read |-> f.read,
                                    true_label |-> r.true_label,
                                    predicted_label |-> r.predicted_label])

\* (variant: an exception of the read propagates out of the batch)
OriginalTrial_uncaught ==
    /\ pc = "filter"
    /\ endswith_image_ext(directory.entries[i])
    /\ \E f \in Files :
          /\ file' = f
          /\ RunTrial(f, FALSE, NoSample, NoSample, "Processing original image")
          /\ pc' = IF f.read = "ok" THEN "tampered" ELSE "raised"
    /\ UNCHANGED <<directory, i, result, listed>>

\* ---- lines 63-72: the untampered trial of a matching entry ----
OriginalTrial ==
    /\ pc = "filter"
    /\ endswith_image_ext(directory.entries[i])
    /\ \E f \in Files :
          /\ file' = f
          /\ RunTrial(f, FALSE, NoSample, NoSample, "Processing original image")
    /\ pc' = "tampered"
    /\ UNCHANGED <<directory, i, result, listed>>

\* ---- lines 74-80: the tampered trial of the same entry ----
TamperedTrial ==
    /\ pc = "tampered"
    /\ \E s \in tamper_samples(image_to_binary(file, i).data) :
          RunTrial(file, TRUE, s[1], s[2], "Processing tampered image")
    /\ file' = NoFile
    /\ pc' = "loop"
    /\ UNCHANGED <<directory, i, result, listed>>

\* ---- lines 82-84: nothing was collected ----
NoLabels ==
    /\ pc = "end"
    /\ (all_true_labels = <<>> \/ all_predicted_labels = <<>>)
    /\ out' = Append(out, [msg |-> "No valid images processed", arg |-> 0])
    /\ result' = ZeroMetrics
    /\ pc' = "done"
    /\ UNCHANGED <<directory, i, all_true_labels, all_predicted_labels,
                   file, listed, trial, trials>>

\* ---- lines 82, 86-90: the metric computation ----
ComputeMetrics ==
    /\ pc = "end"
    /\ ~(all_true_labels = <<>> \/ all_predicted_labels = <<>>)
    /\ result' = <<precision_score(all_true_labels, all_predicted_labels),
                   recall_score(all_true_labels, all_predicted_labels),
                   f1_score(all_true_labels, all_predicted_labels)>>
    /\ pc' = "done"
    /\ UNCHANGED <<directory, i, all_true_labels, all_predicted_labels, out,
                   file, listed, trial, trials>>

Next ==
    \/ DirectoryMissing
    \/ ListDirectory
    \/ NextEntry
    \/ SkipEntry
    \/ OriginalTrial
    \/ TamperedTrial
    \/ NoLabels
    \/ ComputeMetrics

Spec == Init /\ [][Next]_vars

TypeOK ==
    /\ pc \in {"start", "loop", "filter", "tampered", "end", "done"}
    /\ i \in 0..Len(directory.entries)
    /\ Len(all_true_labels) <= 2 * Len(directory.entries)

\* ---- vocabulary of the properties ----
Listing == directory.entries
Matching == {k \in 1..Len(Listing) : endswith_image_ext(Listing[k])}
TrialsOf(k) == {n \in 1..Len(trials) : trials[n].file = k}
ReadFails(k) == \E n \in TrialsOf(k) : trials[n].read # "ok"
Printed(m) == \E n \in 1..Len(out) : out[n].msg = m
PrintedFor(m, k) == \E n \in 1..Len(out) : out[n] = [msg |-> m, arg |-> k]
Returned == pc = "done"
TrialRan == trial.file # 0

TP == Count(all_true_labels, all_predicted_labels, 1, 1)
FP == Count(all_true_labels, all_predicted_labels, 0, 1)
FN == Count(all_true_labels, all_predicted_labels, 1, 0)
\* equality of two fractions
Same(a, b) == a[1] * b[2] = b[1] * a[2]

\* C1: after the batch has run over a directory, two label pairs have been
\* appended for each matching image that was read successfully and none for
\* each matching image whose read failed.
C1_TwoPairsPerReadableImage ==
    (Returned /\ directory.kind = "dir") =>
        /\ Len(all_true_labels) = 2 * Cardinality({k \in Matching : ~ReadFails(k)})
        /\ Len(all_predicted_labels) = Len(all_true_labels)

\* C2: a batch over an existing directory in which no matching file could be
\* read (none matches, or every matching one fails to read) ends with the
\* "No valid images processed" message and (0.0, 0.0, 0.0).
C2_NoValidImagesReported ==
    (Returned /\ directory.kind = "dir" /\ \A k \in Matching : ReadFails(k)) =>
        /\ Printed("No valid images processed")
        /\ result = ZeroMetrics

\* C3 as stated: an untampered trial on a file whose read succeeds returns
\* (1,1) whatever the content, zero bytes included.
C3_UntamperedReadOkIsMatch ==
    (TrialRan /\ ~trial.tampered /\ trial.read = "ok") =>
        (trial.true_label = 1 /\ trial.predicted_label = 1)

\* C3 amended: an untampered trial on a file whose read succeeds returns (1,1)
\* when the file has at least one byte and the sentinel (0,0) when it has none.
C3_UntamperedNonEmptyIsMatch ==
    (TrialRan /\ ~trial.tampered /\ trial.read = "ok") =>
        IF file.content # <<>>
        THEN trial.true_label = 1 /\ trial.predicted_label = 1
        ELSE trial.true_label = 0 /\ trial.predicted_label = 0

C3_Witness ==
    /\ TrialRan /\ ~trial.tampered /\ trial.read = "ok"
    /\ Len(file.content) = MaxLen
    /\ all_true_labels[Len(all_true_labels)] = 1
    /\ all_predicted_labels[Len(all_predicted_labels)] = 1

\* C4: a tampered trial has ground truth 0, and predicts 1 exactly when the
\* tamperer drew a value equal to the original byte at the index it drew.
C4_TamperedPredictsMatchIffSameByte ==
    (TrialRan /\ trial.tampered) =>
        /\ trial.true_label = 0
        /\ trial.predicted_label \in {0, 1}
        /\ trial.predicted_label = 1 <=>
              /\ trial.index_to_modify # NoSample
              /\ trial.new_value = trial.data[trial.index_to_modify + 1]

C4_Witness ==
    /\ TrialRan /\ trial.tampered
    /\ trial.index_to_modify = MaxLen - 1
    /\ Len(trial.data) = MaxLen
    /\ trial.new_value = trial.data[MaxLen]
    /\ trial.predicted_label = 1

\* C5: on non-empty bytes the tamperer returns bytes of the same length that
\* differ from the input at no index but the drawn one, which holds the drawn
\* value; the index is in 0..len-1 and the value in 0..255.
C5_TamperChangesOneByte ==
    (TrialRan /\ trial.tampered /\ trial.data # <<>>) =>
        /\ trial.index_to_modify \in 0..(Len(trial.data) - 1)
        /\ trial.new_value \in 0..255
        /\ Len(trial.final) = Len(trial.data)
        /\ trial.final[trial.index_to_modify + 1] = trial.new_value
        /\ \A j \in 1..Len(trial.data) :
              j # trial.index_to_modify + 1 => trial.final[j] = trial.data[j]

C5_Witness ==
    /\ TrialRan /\ trial.tampered
    /\ Len(trial.data) = MaxLen
    /\ trial.index_to_modify = 0
    /\ trial.new_value = 255
    /\ trial.final # trial.data

C7_MissingDirectoryReturnsZero ==
    directory.kind # "dir" =>
        /\ ~listed
        /\ trials = <<>>
        /\ all_true_labels = <<>> /\ all_predicted_labels = <<>>
        /\ pc \in {"start", "done"}
        /\ Returned =>
              /\ out = <<[msg |-> "directory does not exist", arg |-> 0]>>
              /\ result = ZeroMetrics

C7_Witness ==
    Returned /\ directory.kind = "missing" /\ result = ZeroMetrics

\* C8: a failed read of a matching file prints its message and yields empty
\* bytes, and the batch neither stops nor skips anything after it: every
\* state before the return has a next step, every matching file the loop has
\* passed has both its trials, and the return comes after the whole listing
\* with metrics (computed or zero).
C8_ReadFailureDoesNotAbort ==
    \A k \in Matching :
        (ReadFails(k) /\ TrialsOf(k) # {}) =>
            /\ \A n \in TrialsOf(k) : trials[n].true_label = 0
            /\ \/ PrintedFor("file was not found", k)
               \/ PrintedFor("I/O error occurred", k)
            /\ \A n \in TrialsOf(k) : trials[n].predicted_label = 0
            /\ ~Returned => ENABLED Next
            /\ \A m \in Matching :
                  (k <= m /\ (m < i \/ (m = i /\ pc \in {"loop", "end", "done"}))) =>
                  \E a, b \in TrialsOf(m) :
                      ~trials[a].tampered /\ trials[b].tampered
            /\ Returned =>
                  /\ i = Len(Listing)
                  /\ result # <<>>
                  /\ \/ Printed("No valid images processed")
                     \/ result = <<precision_score(all_true_labels, all_predicted_labels),
                                   recall_score(all_true_labels, all_predicted_labels),
                                   f1_score(all_true_labels, all_predicted_labels)>>

C8_Witness ==
    /\ Returned
    /\ Matching = 1..MaxFiles
    /\ trials[1].read = "notfound"
    /\ \A n \in TrialsOf(MaxFiles) : trials[n].read = "ok"
    /\ Cardinality(TrialsOf(MaxFiles)) = 2
    /\ all_predicted_labels[2 * MaxFiles - 1] = 1
    /\ result # <<>>

\* C9: when labels were collected the returned metrics are
\* precision = TP/(TP+FP), recall = TP/(TP+FN), F1 = 2PR/(P+R), label 1 being
\* the positive class and each metric 0 when its denominator is 0.
C9_MetricsAreStandard ==
    (Returned /\ all_true_labels # <<>>) =>
        LET P == result[1]
            R == result[2]
        IN /\ IF TP + FP = 0 THEN P = Zero ELSE Same(P, <<TP, TP + FP>>)
           /\ IF TP + FN = 0 THEN R = Zero ELSE Same(R, <<TP, TP + FN>>)
           /\ IF P[1] * R[2] + R[1] * P[2] = 0
              THEN result[3] = Zero
              ELSE Same(result[3],
                        <<2 * P[1] * R[1], P[1] * R[2] + R[1] * P[2]>>)

C9_Witness ==
    /\ Returned /\ all_true_labels # <<>>
    /\ TP > 0 /\ FP > 0
    /\ ~Same(result[1], <<1, 1>>)

\* C10: no label pair is ever a false negative (truth 1, predicted 0), and
\* the returned recall is 1 when a pair with truth 1 was collected, else 0.
C10_NoFalseNegative ==
    /\ \A n \in 1..Len(all_true_labels) :
          n <= Len(all_predicted_labels) =>
              ~(all_true_labels[n] = 1 /\ all_predicted_labels[n] = 0)
    /\ Returned =>
          IF \E n \in 1..Len(all_true_labels) : all_true_labels[n] = 1
          THEN Same(result[2], <<1, 1>>)
          ELSE result[2] = Zero

C10_Witness ==
    /\ Returned
    /\ \E n \in 1..Len(all_true_labels) : all_true_labels[n] = 1
    /\ \E k \in Matching : ReadFails(k)
    /\ Same(result[2], <<1, 1>>)
====
